---- MODULE Spec2Model ----
(***************************************************************************)
(* Model of the PCQM4M training driver: main (src/main.py) and             *)
(* train_one_epoch (src/engine/train.py).                                  *)
(*                                                                         *)
(* CheckpointSaver, update_summary, validate and AverageMeter live in      *)
(* utils/ and engine/valid.py, which are not part of the source tree at    *)
(* hand; they are modelled from their documented contract.                 *)
(*                                                                         *)
(* Optional Python values: None is the empty tuple, a number v is <<v>>.   *)
(* Losses are small naturals; a running average is a reduced fraction      *)
(* <<numerator, denominator>>.                                             *)
(***************************************************************************)
EXTENDS Integers, Sequences, FiniteSets, TLC

\* ---------------------------------------------------------------- bounds
MaxEpochs == 2
MaxBatches == 2
MaxBatchSize == 2
MaxLoss == 1
LongBatches == 21

\* ------------------------------------------------------- program constants
ReportEvery == 10

Runs == {1, 2}
MainRun == 1
Stamps == {"t1", "t2"}

None == <<>>
Some(v) == <<v>>

VARIABLES
    pc,            \* per run: position of main
    log,           \* per run: calls main has made so far, in order
    output_dir,    \* per run: the timestamp-derived path ("unset" before)
    raised,        \* per run: the step whose exception left main ("none")
    fs,            \* the directories that exist
    epochs,        \* args.epochs
    loader,        \* batch sizes of the batches of train_loader, in order
    lossMax,       \* largest loss value the model produces in this run
    epoch,         \* loop variable of main
    tstep,         \* position inside train_one_epoch ("idle" outside)
    i,             \* batch index of train_one_epoch
    pending,       \* transfers issued and not yet complete
    ready,         \* transfers complete and not yet awaited
    loss,          \* loss of the current batch
    loss_m,        \* the AverageMeter of train_one_epoch
    seen,          \* <<batch_size, loss>> of the batches of this call
    bsteps,        \* <<i, statement>> executed by the batch loop in this call
    reports,       \* <<i, avg>> shown by pbar.set_description in this call
    train_metric,  \* main's train_metric['loss']
    eval_metric,   \* main's eval_metric['loss']
    best_metric,   \* main's best_metric
    best_epoch,    \* main's best_epoch
    saver,         \* CheckpointSaver state
    summary,       \* rows of summary.csv
    sched_steps,   \* number of scheduler.step() calls
    valLosses      \* validation losses returned so far, in order

runVars == <<pc, log, output_dir, raised, fs>>
envVars == <<epochs, loader, lossMax>>
trainVars == <<tstep, i, pending, ready, loss, loss_m, seen, bsteps, reports>>
mainVars == <<epoch, train_metric, eval_metric, best_metric, best_epoch,
              saver, summary, sched_steps, valLosses>>
vars == <<runVars, envVars, trainVars, mainVars>>

\* ---------------------------------------------------------------- helpers
RECURSIVE GCD(_, _)
GCD(a, b) == IF b = 0 THEN a ELSE GCD(b, a % b)

\* Python's sum / count as a reduced fraction
Div(s, c) == LET g == GCD(s, c) IN <<s \div g, c \div g>>

IndexOf(seq, x) == CHOOSE k \in 1..Len(seq) : seq[k] = x

\* the element that follows x in seq
After(seq, x) == seq[IndexOf(seq, x) + 1]

\* ------------------------------------------------------------ AverageMeter
AverageMeterNew == [val |-> 0, sum |-> 0, count |-> 0, avg |-> <<0, 1>>]

AverageMeterUpdate(m, val, n) ==
    LET s == m.sum + val * n
        c == m.count + n
    IN [val |-> val, sum |-> s, count |-> c, avg |-> Div(s, c)]

\* ---------------------------------------------------------- CheckpointSaver
SaverDecreasing_mut == FALSE
SaverDecreasing == TRUE

CheckpointSaverNew == [best_metric |-> None, best_epoch |-> None,
                       decreasing |-> SaverDecreasing]

SaverCmp(sv, a, b) == IF sv.decreasing THEN a < b ELSE a > b

\* the saver after save_checkpoint(e, metric)
SaveCheckpoint(sv, e, metric) ==
    IF sv.best_metric = None \/ SaverCmp(sv, metric, sv.best_metric[1])
    THEN [sv EXCEPT !.best_metric = Some(metric), !.best_epoch = Some(e)]
    ELSE sv

\* ---------------------------------------------------------- update_summary
UpdateSummary(rows, e, write_header) ==
    (IF write_header THEN Append(rows, <<"header">>) ELSE rows)
        \o << <<"row", e>> >>

\* ------------------------------------------------------------- main: order
\* the statements of main before the epoch loop, in program order
SetupSteps == <<"Perceiver", "seed_everything", "Adam", "StepLR",
                "create_dataset", "train_loader", "valid_loader",
                "AsyncTransferer", "exp_name", "exists", "makedirs",
                "CheckpointSaver", "best_init", "loop">>

\* the statements of one iteration of the epoch loop, in program order
EpochSteps_mut == <<"validate", "train", "summary", "save", "sched", "loop">>
EpochSteps == <<"train", "validate", "summary", "save", "sched", "loop">>

\* the statements of one iteration of the batch loop, in program order
BatchSteps_mut == <<"copy_atom", "copy_bond", "wait_atom", "forward", "loss",
                    "zero_grad", "backward", "opt_step", "meter", "report",
                    "iter">>
BatchSteps == <<"copy_atom", "copy_bond", "wait_atom", "wait_bond", "forward",
                "loss", "zero_grad", "backward", "opt_step", "meter",
                "report", "iter">>

\* where control goes when a statement raises: nothing catches it
ExceptionTarget_mut(p) == p
ExceptionTarget(p) == "failed"

\* write_header argument of update_summary
WriteHeader_mut(bm) == TRUE
WriteHeader(bm) == bm = None

\* the condition guarding pbar.set_description
ShouldReport_mut(idx, last) == idx % ReportEvery = 0
ShouldReport(idx, last) == idx % ReportEvery = 0 \/ idx = last

\* the arguments train_one_epoch passes to loss_m.update
LossMUpdate_mut(m, l, bs) == AverageMeterUpdate(m, l, 1)
LossMUpdate(m, l, bs) == AverageMeterUpdate(m, l, bs)

LastBatch == Len(loader) - 1

\* loaders of n batches: every batch is full but possibly the last
Loaders(nmax) ==
    { [k \in 1..t[1] |-> IF k = t[1] THEN t[3] ELSE t[2]] :
        t \in { u \in (0..nmax) \X (1..MaxBatchSize) \X (1..MaxBatchSize) :
                  u[3] <= u[2] } }

\* ------------------------------------------------------------------- Init
InitCommon ==
    /\ log = [r \in Runs |-> <<>>]
    /\ output_dir = [r \in Runs |-> "unset"]
    /\ raised = [r \in Runs |-> "none"]
    /\ fs = {}
    /\ epoch = -1
    /\ tstep = "idle"
    /\ i = -1
    /\ pending = {}
    /\ ready = {}
    /\ loss = 0
    /\ loss_m = AverageMeterNew
    /\ seen = <<>>
    /\ bsteps = <<>>
    /\ reports = <<>>
    /\ train_metric = None
    /\ eval_metric = None
    /\ best_metric = None
    /\ best_epoch = None
    /\ saver = CheckpointSaverNew
    /\ summary = <<>>
    /\ sched_steps = 0
    /\ valLosses = <<>>

\* one driver run
Init ==
    /\ InitCommon
    /\ pc = [r \in Runs |-> IF r = MainRun THEN SetupSteps[1] ELSE "off"]
    /\ epochs \in 0..MaxEpochs
    /\ loader \in Loaders(MaxBatches)
    /\ lossMax = MaxLoss

\* one driver run over a long loader of unit batches with a constant loss
InitLong ==
    /\ InitCommon
    /\ pc = [r \in Runs |-> IF r = MainRun THEN SetupSteps[1] ELSE "off"]
    /\ epochs = 1
    /\ loader \in { [k \in 1..n |-> 1] : n \in 0..LongBatches }
    /\ lossMax = 0

\* two driver runs started together, up to the epoch loop
InitDir ==
    /\ InitCommon
    /\ pc = [r \in Runs |-> SetupSteps[1]]
    /\ epochs = 0
    /\ loader = <<>>
    /\ lossMax = 0

\* ------------------------------------------------------------ main: setup
Goto(r, p) == pc' = [pc EXCEPT ![r] = p]
Called(r, entry) == log' = [log EXCEPT ![r] = Append(@, entry)]

ConstructModel(r) ==
    /\ pc[r] = "Perceiver"
    /\ Goto(r, After(SetupSteps, pc[r]))
    /\ Called(r, <<pc[r]>>)
    /\ UNCHANGED <<output_dir, raised, fs, envVars, trainVars, mainVars>>

SeedEverything(r) ==
    /\ pc[r] = "seed_everything"
    /\ Goto(r, After(SetupSteps, pc[r]))
    /\ Called(r, <<pc[r]>>)
    /\ UNCHANGED <<output_dir, raised, fs, envVars, trainVars, mainVars>>

Construct(r) ==
    /\ pc[r] \in {"Adam", "StepLR", "create_dataset", "train_loader",
                  "valid_loader", "AsyncTransferer"}
    /\ Goto(r, After(SetupSteps, pc[r]))
    /\ Called(r, <<pc[r]>>)
    /\ UNCHANGED <<output_dir, raised, fs, envVars, trainVars, mainVars>>

ExpName(r) ==
    /\ pc[r] = "exp_name"
    /\ \E t \in Stamps : output_dir' = [output_dir EXCEPT ![r] = t]
    /\ Goto(r, After(SetupSteps, pc[r]))
    /\ UNCHANGED <<log, raised, fs, envVars, trainVars, mainVars>>

Exists(r) ==
    /\ pc[r] = "exists"
    /\ Called(r, <<"exists", output_dir[r] \in fs>>)
    /\ IF output_dir[r] \in fs
       THEN Goto(r, After(SetupSteps, "makedirs"))
       ELSE Goto(r, "makedirs")
    /\ UNCHANGED <<output_dir, raised, fs, envVars, trainVars, mainVars>>

\* os.makedirs without exist_ok raises FileExistsError on an existing path
Makedirs(r) ==
    /\ pc[r] = "makedirs"
    /\ Called(r, <<"makedirs">>)
    /\ IF output_dir[r] \in fs
       THEN /\ raised' = [raised EXCEPT ![r] = "makedirs"]
            /\ Goto(r, "failed")
            /\ fs' = fs
       ELSE /\ fs' = fs \cup {output_dir[r]}
            /\ Goto(r, After(SetupSteps, "makedirs"))
            /\ raised' = raised
    /\ UNCHANGED <<output_dir, envVars, trainVars, mainVars>>

SaverInit(r) ==
    /\ pc[r] = "CheckpointSaver"
    /\ saver' = CheckpointSaverNew
    /\ Goto(r, After(SetupSteps, pc[r]))
    /\ Called(r, <<pc[r]>>)
    /\ UNCHANGED <<output_dir, raised, fs, envVars, trainVars, epoch,
                   train_metric, eval_metric, best_metric, best_epoch,
                   summary, sched_steps, valLosses>>

BestInit(r) ==
    /\ pc[r] = "best_init"
    /\ best_metric' = None
    /\ best_epoch' = None
    /\ Goto(r, After(SetupSteps, pc[r]))
    /\ UNCHANGED <<log, output_dir, raised, fs, envVars, trainVars, epoch,
                   train_metric, eval_metric, saver, summary, sched_steps,
                   valLosses>>

Setup(r) ==
    \/ ConstructModel(r)
    \/ SeedEverything(r)
    \/ Construct(r)
    \/ ExpName(r)
    \/ Exists(r)
    \/ Makedirs(r)
    \/ SaverInit(r)
    \/ BestInit(r)

\* ------------------------------------------------------- main: epoch loop
InMain(p) == pc[MainRun] = p
InTrain(st) == pc[MainRun] = "train" /\ tstep = st

\* for epoch in range(args.epochs)
LoopHead ==
    /\ InMain("loop")
    /\ IF epoch + 1 < epochs
       THEN /\ epoch' = epoch + 1
            /\ Goto(MainRun, EpochSteps[1])
       ELSE /\ epoch' = epoch
            /\ Goto(MainRun, "done")
    /\ UNCHANGED <<log, output_dir, raised, fs, envVars, trainVars,
                   train_metric, eval_metric, best_metric, best_epoch, saver,
                   summary, sched_steps, valLosses>>

\* ------------------------------------------------------- train_one_epoch
TrainEnter ==
    /\ InTrain("idle")
    /\ Called(MainRun, <<"train", epoch>>)
    /\ loss_m' = AverageMeterNew
    /\ i' = -1
    /\ seen' = <<>>
    /\ reports' = <<>>
    /\ bsteps' = <<>>
    /\ tstep' = "iter"
    /\ UNCHANGED <<pc, output_dir, raised, fs, envVars, pending, ready, loss,
                   mainVars>>

\* for i, (graph, labels) in enumerate(pbar)
TrainIter ==
    /\ InTrain("iter")
    /\ IF i + 1 < Len(loader)
       THEN /\ i' = i + 1
            /\ tstep' = BatchSteps[1]
       ELSE /\ i' = i
            /\ tstep' = "return"
    /\ UNCHANGED <<runVars, envVars, pending, ready, loss, loss_m, seen,
                   bsteps, reports, mainVars>>

\* the current statement of the batch loop has run
Advance(st) ==
    /\ bsteps' = Append(bsteps, <<i, st>>)
    /\ tstep' = After(BatchSteps, st)

AsyncCopy(st, which) ==
    /\ InTrain(st)
    /\ pending' = pending \cup {<<i, which>>}
    /\ Advance(st)
    /\ UNCHANGED <<runVars, envVars, i, ready, loss, loss_m, seen, reports,
                   mainVars>>

CopyAtom == AsyncCopy("copy_atom", "atom")
CopyBond == AsyncCopy("copy_bond", "bond")

\* the copy engine finishes a transfer
XferComplete ==
    /\ \E x \in pending :
        /\ pending' = pending \ {x}
        /\ ready' = ready \cup {x}
    /\ UNCHANGED <<runVars, envVars, tstep, i, loss, loss_m, seen, bsteps,
                   reports, mainVars>>

\* handle.wait() blocks until the transfer is complete
Wait(st, which) ==
    /\ InTrain(st)
    /\ <<i, which>> \in ready
    /\ ready' = ready \ {<<i, which>>}
    /\ Advance(st)
    /\ UNCHANGED <<runVars, envVars, i, pending, loss, loss_m, seen, reports,
                   mainVars>>

WaitAtom == Wait("wait_atom", "atom")
WaitBond == Wait("wait_bond", "bond")

Plain(st) ==
    /\ InTrain(st)
    /\ Advance(st)
    /\ UNCHANGED <<runVars, envVars, i, pending, ready, loss, loss_m, seen,
                   reports, mainVars>>

Forward == Plain("forward")
ZeroGrad == Plain("zero_grad")
Backward == Plain("backward")
OptimizerStep == Plain("opt_step")

L1Loss ==
    /\ InTrain("loss")
    /\ \E v \in 0..lossMax :
        /\ loss' = v
        /\ seen' = Append(seen, <<loader[i + 1], v>>)
    /\ Advance("loss")
    /\ UNCHANGED <<runVars, envVars, i, pending, ready, loss_m, reports,
                   mainVars>>

MeterUpdate ==
    /\ InTrain("meter")
    /\ loss_m' = LossMUpdate(loss_m, loss, loader[i + 1])
    /\ Advance("meter")
    /\ UNCHANGED <<runVars, envVars, i, pending, ready, loss, seen, reports,
                   mainVars>>

Report ==
    /\ InTrain("report")
    /\ reports' = IF ShouldReport(i, LastBatch)
                  THEN Append(reports, <<i, loss_m.avg>>)
                  ELSE reports
    /\ Advance("report")
    /\ UNCHANGED <<runVars, envVars, i, pending, ready, loss, loss_m, seen,
                   mainVars>>

TrainReturn ==
    /\ InTrain("return")
    /\ train_metric' = loss_m.avg
    /\ tstep' = "idle"
    /\ Goto(MainRun, After(EpochSteps, "train"))
    /\ UNCHANGED <<log, output_dir, raised, fs, envVars, i, pending, ready,
                   loss, loss_m, seen, bsteps, reports, epoch, eval_metric,
                   best_metric, best_epoch, saver, summary, sched_steps,
                   valLosses>>

\* the statements of train_one_epoch that can raise
FailableTrainSteps == {"iter", "copy_atom", "copy_bond", "wait_atom",
                       "wait_bond", "forward", "loss", "backward", "opt_step"}

TrainStepRaises ==
    /\ InMain("train")
    /\ tstep \in FailableTrainSteps
    /\ raised' = [raised EXCEPT ![MainRun] = tstep]
    /\ Goto(MainRun, ExceptionTarget(pc[MainRun]))
    /\ UNCHANGED <<log, output_dir, fs, envVars, trainVars, mainVars>>

\* ------------------------------------------ main: the rest of an iteration
Validate ==
    /\ InMain("validate")
    /\ Called(MainRun, <<"validate", epoch>>)
    /\ \E v \in 0..lossMax :
        /\ eval_metric' = Some(v)
        /\ valLosses' = Append(valLosses, v)
    /\ Goto(MainRun, After(EpochSteps, "validate"))
    /\ UNCHANGED <<output_dir, raised, fs, envVars, trainVars, epoch,
                   train_metric, best_metric, best_epoch, saver, summary,
                   sched_steps>>

Summary ==
    /\ InMain("summary")
    /\ Called(MainRun, <<"summary", epoch>>)
    /\ summary' = UpdateSummary(summary, epoch, WriteHeader(best_metric))
    /\ Goto(MainRun, After(EpochSteps, "summary"))
    /\ UNCHANGED <<output_dir, raised, fs, envVars, trainVars, epoch,
                   train_metric, eval_metric, best_metric, best_epoch, saver,
                   sched_steps, valLosses>>

Save ==
    /\ InMain("save")
    /\ Called(MainRun, <<"save", epoch>>)
    /\ saver' = SaveCheckpoint(saver, epoch, eval_metric[1])
    /\ best_metric' = saver'.best_metric
    /\ best_epoch' = saver'.best_epoch
    /\ Goto(MainRun, After(EpochSteps, "save"))
    /\ UNCHANGED <<output_dir, raised, fs, envVars, trainVars, epoch,
                   train_metric, eval_metric, summary, sched_steps, valLosses>>

SchedulerStep ==
    /\ InMain("sched")
    /\ Called(MainRun, <<"sched", epoch>>)
    /\ sched_steps' = sched_steps + 1
    /\ Goto(MainRun, After(EpochSteps, "sched"))
    /\ UNCHANGED <<output_dir, raised, fs, envVars, trainVars, epoch,
                   train_metric, eval_metric, best_metric, best_epoch, saver,
                   summary, valLosses>>

\* the calls of the loop body that can raise
FailableCalls == {"validate", "summary", "save"}

CallRaises ==
    /\ pc[MainRun] \in FailableCalls
    /\ Called(MainRun, <<pc[MainRun], epoch>>)
    /\ raised' = [raised EXCEPT ![MainRun] = pc[MainRun]]
    /\ Goto(MainRun, ExceptionTarget(pc[MainRun]))
    /\ UNCHANGED <<output_dir, fs, envVars, trainVars, mainVars>>

\* ------------------------------------------------------------------- Next
Next ==
    \/ Setup(MainRun)
    \/ LoopHead
    \/ TrainEnter
    \/ TrainIter
    \/ CopyAtom
    \/ CopyBond
    \/ XferComplete
    \/ WaitAtom
    \/ WaitBond
    \/ Forward
    \/ L1Loss
    \/ ZeroGrad
    \/ Backward
    \/ OptimizerStep
    \/ MeterUpdate
    \/ Report
    \/ TrainReturn
    \/ TrainStepRaises
    \/ Validate
    \/ Summary
    \/ Save
    \/ SchedulerStep
    \/ CallRaises

NextDir == \E r \in Runs : Setup(r)

Spec == Init /\ [][Next]_vars
SpecLong == InitLong /\ [][Next]_vars
SpecDir == InitDir /\ [][NextDir]_vars

\* ------------------------------------------------------ property helpers
IsPrefix(s, t) == Len(s) <= Len(t) /\ \A k \in 1..Len(s) : s[k] = t[k]

Range(s) == { s[k] : k \in 1..Len(s) }

RECURSIVE MinOf(_)
MinOf(s) == IF Len(s) = 1 THEN s[1]
            ELSE LET m == MinOf(Tail(s)) IN IF s[1] < m THEN s[1] ELSE m

\* sum of batch_size * loss, and of batch_size, over observed batches
RECURSIVE WeightedSum(_)
WeightedSum(s) == IF s = <<>> THEN 0 ELSE s[1][1] * s[1][2] + WeightedSum(Tail(s))

RECURSIVE SizeSum(_)
SizeSum(s) == IF s = <<>> THEN 0 ELSE s[1][1] + SizeSum(Tail(s))

\* the fraction f is the batch-size-weighted mean of the batches s
IsWeightedMean(f, s) ==
    /\ f[2] > 0
    /\ f[1] * SizeSum(s) = f[2] * WeightedSum(s)

\* where main is, or was when an exception left it
Pos == IF InMain("failed")
       THEN (IF raised[MainRun] \in FailableCalls \cup {"makedirs"}
             THEN raised[MainRun] ELSE "train")
       ELSE pc[MainRun]

\* ------------------------------------------------------------------- C1
\* C1: the train / validate / scheduler-step calls main has made are always
\* an initial part of train(0), validate(0), step(0), train(1), validate(1),
\* step(1), ... up to epoch epochs-1, and are all of it when main returns;
\* with epochs = 0 that sequence is empty.
C1_Names == <<"train", "validate", "sched">>

C1_Expected == [k \in 1..(3 * epochs) |->
                   <<C1_Names[((k - 1) % 3) + 1], (k - 1) \div 3>>]

C1_LoopCalls == SelectSeq(log[MainRun],
                          LAMBDA x : Len(x) = 2 /\ x[1] \in Range(C1_Names))

C1_EpochOrder ==
    /\ IsPrefix(C1_LoopCalls, C1_Expected)
    /\ InMain("done") => C1_LoopCalls = C1_Expected
    /\ sched_steps = Cardinality({k \in 1..Len(C1_LoopCalls) :
                                      C1_LoopCalls[k][1] = "sched"})

C1_Witness == InMain("done") /\ epochs >= 2 /\ sched_steps = epochs

\* ------------------------------------------------------------------- C2
\* C2: right after the save_checkpoint call of epoch e, best_metric is the
\* minimum of the validation losses of epochs 0..e and best_epoch is an
\* epoch in 0..e whose validation loss is that minimum.
C2_BestIsMin ==
    InMain("sched") =>
        /\ Len(valLosses) = epoch + 1
        /\ best_metric = Some(MinOf(valLosses))
        /\ best_epoch # None
        /\ best_epoch[1] \in 0..epoch
        /\ valLosses[best_epoch[1] + 1] = MinOf(valLosses)

C2_Witness ==
    /\ InMain("sched")
    /\ epoch = 1
    /\ valLosses[2] > valLosses[1]

\* ------------------------------------------------------------------- C3
\* C3: a save_checkpoint(epoch, metric) call that returns sets the saver's
\* best metric and epoch to this call's when there was no best or metric is
\* strictly less than it, leaves both as they were otherwise, and main
\* receives the saver's best metric and epoch.
C3_Improves == saver.best_metric = None \/ eval_metric[1] < saver.best_metric[1]

C3_SaveReturns ==
    /\ InMain("save")
    /\ log'[MainRun] = Append(log[MainRun], <<"save", epoch>>)
    /\ raised' = raised

C3_SaveStep ==
    [][C3_SaveReturns =>
        /\ C3_Improves =>
             /\ saver'.best_metric = Some(eval_metric[1])
             /\ saver'.best_epoch = Some(epoch)
        /\ ~C3_Improves =>
             /\ saver'.best_metric = saver.best_metric
             /\ saver'.best_epoch = saver.best_epoch
        /\ best_metric' = saver'.best_metric
        /\ best_epoch' = saver'.best_epoch]_vars

C3_Witness ==
    /\ InMain("sched")
    /\ epoch = 1
    /\ valLosses[2] = valLosses[1]
    /\ best_epoch = Some(0)

\* ------------------------------------------------------------------- C4
\* C4: after k update_summary calls (one per epoch) summary.csv is one header
\* row followed by the data rows of epochs 0..k-1; it is empty before the
\* first call.  So only the first call writes the header.
C4_Calls == IF Pos \in {"save", "sched", "loop", "done"} THEN epoch + 1
            ELSE IF Pos \in {"train", "validate", "summary"} THEN epoch
            ELSE 0

C4_Header ==
    summary = IF C4_Calls = 0 THEN <<>>
              ELSE << <<"header">> >> \o [k \in 1..C4_Calls |-> <<"row", k - 1>>]

C4_Witness == InMain("loop") /\ epoch = 1 /\ Len(summary) = 3

\* ------------------------------------------------------------------- C5
\* C5: once the meter is updated for a batch, loss_m.avg is the
\* batch-size-weighted mean of the losses of the batches of this call so far,
\* and the loss train_one_epoch returns is that mean over all its batches.
C5_WeightedMean ==
    /\ (InTrain("report") \/ (InTrain("iter") /\ i >= 0) \/ InTrain("return"))
         /\ seen # <<>>
       => /\ Len(seen) = i + 1
          /\ IsWeightedMean(loss_m.avg, seen)
    /\ Pos \in {"validate", "summary", "save", "sched"} /\ seen # <<>>
       => /\ seen = [k \in 1..Len(loader) |-> <<loader[k], seen[k][2]>>]
          /\ IsWeightedMean(train_metric, seen)

C5_Witness ==
    /\ InMain("validate")
    /\ epoch = 1
    /\ Len(seen) = 2
    /\ seen[1][1] # seen[2][1]
    /\ seen[1][2] # seen[2][2]

\* ------------------------------------------------------------------- C6
\* C6: once a step has raised, main has been left by the exception and no
\* further statement of the run executes: no step of the batch loop, no
\* later batch, no call, summary row, checkpoint save, scheduler step or
\* epoch.
C6_Halts ==
    /\ [](raised[MainRun] # "none" => InMain("failed"))
    /\ [][raised[MainRun] # "none" =>
            /\ raised' = raised
            /\ log' = log
            /\ bsteps' = bsteps
            /\ tstep' = tstep
            /\ i' = i
            /\ seen' = seen
            /\ loss_m' = loss_m
            /\ reports' = reports
            /\ epoch' = epoch
            /\ valLosses' = valLosses
            /\ summary' = summary
            /\ saver' = saver
            /\ sched_steps' = sched_steps]_vars

C6_Witness ==
    /\ raised[MainRun] = "forward"
    /\ i = 0
    /\ Len(loader) = 2
    /\ epoch = 0
    /\ epochs = 2

\* ------------------------------------------------------------------- C7
\* C7: of two runs with the same output path neither is left by an exception
\* of os.makedirs, and the directory exists once both are past its creation.
C7_PastCreation(r) == pc[r] \in {"CheckpointSaver", "best_init", "loop"}

C7_Idempotent ==
    \A r1, r2 \in Runs :
        r1 # r2 /\ output_dir[r1] # "unset" /\ output_dir[r1] = output_dir[r2]
        => /\ raised[r1] # "makedirs"
           /\ C7_PastCreation(r1) => output_dir[r1] \in fs

\* ------------------------------------------------------------------- C8
\* C8: the statements of the batch loop run batch by batch in the order copy
\* node features, copy edge features, wait, wait, forward, loss, zero_grad,
\* backward, optimizer step, meter update; once the forward pass of a batch
\* has started none of its transfers is outstanding; only transfers of the
\* current batch are ever outstanding, at most two, and none between
\* batches or after the return.
C8_Order == <<"copy_atom", "copy_bond", "wait_atom", "wait_bond", "forward",
              "loss", "zero_grad", "backward", "opt_step", "meter", "report">>

C8_Expected == [k \in 1..(11 * Len(loader)) |->
                   <<(k - 1) \div 11, C8_Order[((k - 1) % 11) + 1]>>]

C8_Outstanding == pending \cup ready

C8_BatchOrder ==
    /\ IsPrefix(bsteps, C8_Expected)
    /\ <<i, "forward">> \in Range(bsteps)
       => C8_Outstanding \cap {<<i, "atom">>, <<i, "bond">>} = {}
    /\ C8_Outstanding \subseteq {<<i, "atom">>, <<i, "bond">>}
    /\ Cardinality(C8_Outstanding) <= 2
    /\ tstep \in {"iter", "return", "idle"} => C8_Outstanding = {}
    /\ raised[MainRun] = "none" /\ Pos \in {"validate", "summary", "save", "sched"}
       => bsteps = C8_Expected

C8_Witness ==
    /\ InTrain("loss")
    /\ i = 1
    /\ epoch = 1

\* ------------------------------------------------------------------- C9
\* C9: whenever main has constructed the model, the optimizer, the scheduler
\* or a loader, it has called seed_everything before.
C9_Constructions == {<<"Perceiver">>, <<"Adam">>, <<"StepLR">>,
                     <<"train_loader">>, <<"valid_loader">>}

C9_SeedFirst ==
    \A r \in Runs : \A k \in 1..Len(log[r]) :
        log[r][k] \in C9_Constructions
        => \E j \in 1..(k - 1) : log[r][j] = <<"seed_everything">>

\* ------------------------------------------------------------------- C10
\* C10: of the batches whose statements have all run, exactly those with an
\* index that is a multiple of 10 or is len(loader)-1 have been reported,
\* each once and in order; after the return of a call over at least one
\* batch the first and the last batch are reported and the last report shows
\* the returned value; over an empty loader nothing is reported.
C10_Finished == { e[1] : e \in { x \in Range(bsteps) : x[2] = "report" } }

C10_Reported == [k \in 1..Len(reports) |-> reports[k][1]]

C10_Reports ==
    /\ \A k \in 1..Len(reports) :
        /\ reports[k][1] \in C10_Finished
        /\ \A j \in 1..(k - 1) : reports[j][1] < reports[k][1]
    /\ \A b \in C10_Finished :
        b \in Range(C10_Reported) <=> (b % 10 = 0 \/ b = Len(loader) - 1)
    /\ raised[MainRun] = "none" /\ Pos \in {"validate", "summary", "save", "sched"}
       => IF Len(loader) = 0 THEN reports = <<>>
          ELSE /\ C10_Reported[1] = 0
               /\ reports[Len(reports)] = <<Len(loader) - 1, train_metric>>

C10_Witness ==
    /\ InMain("validate")
    /\ Len(loader) = 12
    /\ C10_Reported = <<0, 10, 11>>

====
